---- MODULE Spec2Model ----
(***************************************************************************)
(* The TES backend of crankshaft-engine                                    *)
(* (src/crankshaft-engine/src/service/runner/backend/tes.rs).              *)
(*                                                                         *)
(* `run` translates an engine task, submits it with `create_task`, then    *)
(* polls `get_task` until the reported state is no longer executing and    *)
(* turns the executor logs of that view into a `TaskResult`.               *)
(*                                                                         *)
(* Rust values are encoded as follows.                                     *)
(*   Option<T>    None is <<>>, Some(x) is <<x>>                           *)
(*   String       a sequence of Unicode code points                        *)
(*   Vec<u8>      a sequence of bytes                                      *)
(*   Vec<T>       a sequence                                               *)
(*   u32          [hi, lo], its two 16-bit halves: hi * 65536 + lo         *)
(*   NonEmpty<T>  a sequence (the head followed by the tail)               *)
(*   a panic      pc = "panicked", with the message in `panic`             *)
(***************************************************************************)
EXTENDS Integers, Sequences, FiniteSets, TLC

VARIABLES
    env,        \* the scripted surroundings: the calls made, the build's platform, what the remote may report
    pc,         \* pc[r]: where the future of run r stands
    task_id,    \* task_id[r]: Option, the local `task_id` (line 90)
    view,       \* view[r]: Option, the local `task` of the loop body (line 96)
    result,     \* result[r]: Option, the TaskResult the future resolved to (line 128)
    panic,      \* panic[r]: the message of the panic that ended the future, "" when none
    inflight,   \* requests sent through the shared client that are not answered yet
    remote,     \* remote[i]: the run whose create_task made the remote task with identifier i
    hist,       \* hist[r]: the events of run r so far, oldest first
    slept,      \* slept[r]: milliseconds run r has spent in tokio::time::sleep
    client,     \* the Client behind Backend.client and the strong count of its Arc
    arg,        \* Option: the argument of a function applied on its own
    ret         \* Option: what that function returned

vars == <<env, pc, task_id, view, result, panic, inflight, remote, hist, slept,
          client, arg, ret>>

----------------------------------------------------------------------------
(* Bounds of the model *)

\* A run is answered at most this many status queries; the last one allowed is
\* answered successfully with a non-executing state.
MaxQueries == 3

\* A view's `logs` holds at most this many TaskLog groups ...
MaxGroups == 2

\* ... which together hold at most this many executor logs.
MaxFlat == 3

\* An engine task given to to_tes_task on its own has at most this many
\* executions ...
MaxSteps == 2

\* ... each with at most this many arguments.
MaxArgs == 2

----------------------------------------------------------------------------
(* Values *)

None == <<>>

Some(x) == <<x>>

\* Option::unwrap_or_default for strings (lines 111, 112, 118, 119)
unwrap_or_default(o) == IF o = None THEN <<>> ELSE o[1]

SeqsUpTo(S, n) == UNION {[1..k -> S] : k \in 0..n}

RECURSIVE Concat(_)
Concat(ss) == IF ss = <<>> THEN <<>> ELSE Head(ss) \o Concat(Tail(ss))

\* The calls to `run` made: one in Spec, two concurrent ones in SpecConcurrent.
Runs == {1, 2}

\* The inter-poll delay in milliseconds (line 131).
PollDelayMs == 200

\* tes::v1::types::task::State, the values the model's remote reports.
ExecutingStates == {"QUEUED", "RUNNING"}

StoppedStates == {"COMPLETE", "EXECUTOR_ERROR", "SYSTEM_ERROR", "CANCELED"}

\* State::is_executing (line 99)
is_executing(state) == state \in ExecutingStates

----------------------------------------------------------------------------
(* Engine tasks and their translation *)

Execution(image, args) == [image |-> image, args |-> args]

EngineTasks ==
    { [name |-> None, description |-> None,
       executions |-> <<Execution("alpine", <<"true">>)>>],
      [name |-> Some("two"), description |-> Some("two steps"),
       executions |-> <<Execution("ubuntu", <<"echo", "hi">>),
                        Execution("alpine", <<>>)>>] }

\* to_tes_task with the executors collected last to first.
to_tes_task_reversed(task) ==
    [name |-> task.name,
     description |-> task.description,
     executors |-> [i \in 1..Len(task.executions) |->
                      [image |-> task.executions[Len(task.executions) + 1 - i].image,
                       command |-> task.executions[Len(task.executions) + 1 - i].args]]]

\* to_tes_task (lines 63-82); the fields left at Default::default() are omitted
to_tes_task(task) ==
    [name |-> task.name,
     description |-> task.description,
     executors |-> [i \in 1..Len(task.executions) |->
                      [image |-> task.executions[i].image,
                       command |-> task.executions[i].args]]]

----------------------------------------------------------------------------
(* Executor logs and their mapping to process outputs *)

\* The u32 with value n, for n below 65536.
u32(n) == [hi |-> 0, lo |-> n]

ExecutorLog(code, out, err) == [exit_code |-> code, stdout |-> out, stderr |-> err]

TaskLog(logs) == [logs |-> logs]

\* The executor logs the remote reports: a clean exit without output, an exit
\* code 137 with "ok" on stdout and U+00E9 on stderr, and a log without exit code.
ExecutorLogs ==
    { ExecutorLog(Some(u32(0)), None, None),
      ExecutorLog(Some(u32(137)), Some(<<111, 107>>), Some(<<233>>)),
      ExecutorLog(None, Some(<<>>), None) }

\* The UTF-8 bytes of one code point below U+10000.
Utf8(c) ==
    IF c < 128 THEN <<c>>
    ELSE IF c < 2048 THEN <<192 + (c \div 64), 128 + (c % 64)>>
    ELSE <<224 + (c \div 4096), 128 + ((c \div 64) % 64), 128 + (c % 64)>>

\* str::as_bytes(..).to_vec() (lines 111, 112, 118, 119)
as_bytes(s) == Concat([i \in 1..Len(s) |-> Utf8(s[i])])

\* `status as i32` clamping at i32::MAX instead of wrapping.
as_i32_saturating(c) == IF c.hi >= 32768 THEN 2147483647 ELSE c.hi * 65536 + c.lo

\* `status as i32` (line 110): the u32 exit code reinterpreted as i32
as_i32(c) == (IF c.hi >= 32768 THEN c.hi - 65536 ELSE c.hi) * 65536 + c.lo

\* ExitStatus::from_raw (lines 110, 117)
from_raw(platform, status) ==
    IF platform = "unix" THEN [raw |-> as_i32(status)] ELSE [raw |-> status]

\* The output with stderr in the place of stdout and stdout in that of stderr.
OutputSwapped(platform, log) ==
    [status |-> from_raw(platform, log.exit_code[1]),
     stdout |-> as_bytes(unwrap_or_default(log.stderr)),
     stderr |-> as_bytes(unwrap_or_default(log.stdout))]

\* The body of the closure of `map` after the exit code is known (lines 108-122)
Output(platform, log) ==
    [status |-> from_raw(platform, log.exit_code[1]),
     stdout |-> as_bytes(unwrap_or_default(log.stdout)),
     stderr |-> as_bytes(unwrap_or_default(log.stderr))]


\* flat_map with the groups taken last to first.
flat_map_reversed(groups) ==
    Concat([i \in 1..Len(groups) |-> groups[Len(groups) + 1 - i].logs])

\* flat_map(|task| task.logs) (line 104): group order outer, executor order inner
flat_map(groups) == Concat([i \in 1..Len(groups) |-> groups[i].logs])


\* `results` ending at the first log without exit code, as map_while would.
results_map_while(platform, logs) ==
    LET flat == flat_map(logs)
        n == Cardinality({i \in 1..Len(flat) :
                            \A j \in 1..i : flat[j].exit_code # None})
    IN  [i \in 1..n |-> Some(Output(platform, flat[i]))]

\* The iterator `results` (lines 100-123) over the logs of a view: item i is
\* Some(output) when pulling it yields an output, None when pulling it panics
\* in `expect` (line 106).
results(platform, logs) ==
    LET flat == flat_map(logs)
    IN  [i \in 1..Len(flat) |->
            IF flat[i].exit_code = None THEN None
            ELSE Some(Output(platform, flat[i]))]

Panicked(msg) == [panic |-> msg, value |-> None]

Returned(v) == [panic |-> "", value |-> Some(v)]


\* task_result collecting into a Vec: absent logs count as no logs, and no
\* outputs make an empty result.
task_result_collect(platform, task) ==
    LET items == results(platform, IF task.logs = None THEN <<>> ELSE task.logs[1])
    IN  IF \E i \in 1..Len(items) : items[i] = None
            THEN Panicked("exit code to be present")
        ELSE Returned([executions |-> [i \in 1..Len(items) |-> items[i][1]]])

\* What the body of `if !state.is_executing()` does with the view `task`
\* (lines 100-128): the TaskResult it returns or the panic it ends in.
task_result(platform, task) ==
    IF task.logs = None
        THEN Panicked("logs: unwrap on None")        \* line 102
    ELSE LET items == results(platform, task.logs[1])
         IN  IF items = <<>>
                 THEN Panicked("results.next(): unwrap on None")  \* line 125
             ELSE IF \E i \in 1..Len(items) : items[i] = None
                 THEN Panicked("exit code to be present")         \* line 106
             ELSE Returned([executions |-> [i \in 1..Len(items) |-> items[i][1]]])

----------------------------------------------------------------------------
(* The scripted surroundings *)

\* The values of a view's `logs` with at most g groups and n executor logs.
RECURSIVE GroupsWithin(_, _)
GroupsWithin(g, n) ==
    {<<>>} \cup
    (IF g = 0 THEN {}
     ELSE UNION { { <<TaskLog(l)>> \o rest : rest \in GroupsWithin(g - 1, n - Len(l)) }
                  : l \in SeqsUpTo(ExecutorLogs, n) })

AnyLogs == {None} \cup {Some(gs) : gs \in GroupsWithin(MaxGroups, MaxFlat)}

FewLogs ==
    { Some(<<TaskLog(<<ExecutorLog(Some(u32(137)), None, Some(<<233>>))>>)>>),
      Some(<<TaskLog(<<ExecutorLog(Some(u32(137)), Some(<<111, 107>>), Some(<<233>>))>>),
             TaskLog(<<ExecutorLog(Some(u32(0)), None, None)>>)>>) }

\* One call of `run`, on either platform, against a remote that reports any logs.
SoloEnvs ==
    { [runs |-> {1}, platform |-> p, states |-> {"RUNNING", "COMPLETE"}, logs |-> "any",
       record |-> TRUE, config |-> [url |-> "http://tes", token |-> None]]
        : p \in {"unix", "windows"} }

\* Two concurrent calls of `run` against a remote that reports every state.
ConcurrentEnvs ==
    { [runs |-> Runs, platform |-> "unix",
       states |-> ExecutingStates \cup StoppedStates, logs |-> "few",
       record |-> TRUE, config |-> [url |-> "http://tes", token |-> Some("dXNlcjpwdw==")]] }

\* The values of `state` and of `logs` the remote reports in its views.
EnvStates == {None} \cup {Some(s) : s \in env.states}

EnvLogs == IF env.logs = "any" THEN AnyLogs ELSE FewLogs

----------------------------------------------------------------------------
(* History *)

Count(h, e) == Cardinality({i \in 1..Len(h) : h[i] = e})

\* The status queries run r has issued.
Queries(r) == Count(hist[r], "get_task")

\* The submissions run r has issued.
Submits(r) == Count(hist[r], "create_task")

\* The history and the time slept are kept where env.record says so.
Log(r, e) == hist' = IF env.record THEN [hist EXCEPT ![r] = Append(@, e)] ELSE hist

Log2(r, e1, e2) ==
    hist' = IF env.record THEN [hist EXCEPT ![r] = Append(Append(@, e1), e2)] ELSE hist

\* Backend::initialize (lines 36-47): the client built from the configuration,
\* held by one Arc.
initialize(config) ==
    [url |-> config.url,
     headers |-> IF config.token = None THEN <<>>
                 ELSE <<[name |-> "Authorization", value |-> <<"Basic ", config.token[1]>>]>>,
     strong |-> 1]

\* backend.client.clone() (line 86)
Clone(c) == [c EXCEPT !.strong = @ + 1]

\* The future ends: its clone of the client is dropped.
Drop(c) == [c EXCEPT !.strong = @ - 1]

Requests(r, op) == {q \in inflight : q.run = r /\ q.op = op}

----------------------------------------------------------------------------
(* The state after construction: no call of `run` has been made *)

Idle(envs) ==
    /\ env \in envs
    /\ pc = [r \in Runs |-> "start"]
    /\ task_id = [r \in Runs |-> None]
    /\ view = [r \in Runs |-> None]
    /\ result = [r \in Runs |-> None]
    /\ panic = [r \in Runs |-> ""]
    /\ inflight = {}
    /\ remote = <<>>
    /\ hist = [r \in Runs |-> <<>>]
    /\ slept = [r \in Runs |-> 0]
    /\ client = initialize(env.config)

InitWith(envs) == Idle(envs) /\ arg = None /\ ret = None

Init == InitWith(SoloEnvs)

InitConcurrent == InitWith(ConcurrentEnvs)

----------------------------------------------------------------------------
(* The steps of `run` *)

\* `run` is called and registers the run with the shared client.
CallRegistersRun(r) ==
    /\ r \in env.runs
    /\ pc[r] = "start"
    /\ \E task \in EngineTasks :
         inflight' = inflight \cup
            {[run |-> r, op |-> "create_task", n |-> Submits(r) + 1,
              id |-> None, body |-> Some(to_tes_task(task))]}
    /\ pc' = [pc EXCEPT ![r] = "creating"]
    /\ Log(r, "create_task")
    /\ client' = [Clone(client) EXCEPT
                    !.headers = Append(@, [name |-> "X-Run", value |-> <<"run">>])]
    /\ UNCHANGED <<env, arg, ret, task_id, view, result, panic, remote, slept>>

\* `run` is called and its future polled up to the await of create_task
\* (lines 85-90): the task is translated and submitted.
Call(r) ==
    /\ r \in env.runs
    /\ pc[r] = "start"
    /\ \E task \in EngineTasks :
         inflight' = inflight \cup
            {[run |-> r, op |-> "create_task", n |-> Submits(r) + 1,
              id |-> None, body |-> Some(to_tes_task(task))]}
    /\ pc' = [pc EXCEPT ![r] = "creating"]
    /\ Log(r, "create_task")
    /\ client' = Clone(client)
    /\ UNCHANGED <<env, arg, ret, task_id, view, result, panic, remote, slept>>


\* create_task fails and the submission is made again.
CreateTaskErrRetry(r) ==
    /\ pc[r] = "creating"
    /\ Submits(r) < MaxQueries
    /\ \E q \in Requests(r, "create_task") : inflight' = inflight \ {q}
    /\ pc' = [pc EXCEPT ![r] = "start"]
    /\ Log(r, "create_err")
    /\ UNCHANGED <<client, env, arg, ret, task_id, view, result, panic, remote, slept>>

\* create_task fails: `.unwrap()` panics (line 90).
CreateTaskErr(r) ==
    /\ pc[r] = "creating"
    /\ \E q \in Requests(r, "create_task") : inflight' = inflight \ {q}
    /\ pc' = [pc EXCEPT ![r] = "panicked"]
    /\ panic' = [panic EXCEPT ![r] = "create_task: unwrap on Err"]
    /\ Log2(r, "create_err", "panic")
    /\ client' = Drop(client)
    /\ UNCHANGED <<env, arg, ret, task_id, view, result, remote, slept>>

\* create_task succeeds: the remote makes a task with a fresh identifier, which
\* becomes `task_id`, and the loop is entered (lines 90-92).
CreateTaskOk(r) ==
    /\ pc[r] = "creating"
    /\ \E q \in Requests(r, "create_task") : inflight' = inflight \ {q}
    /\ remote' = Append(remote, r)
    /\ task_id' = [task_id EXCEPT ![r] = Some(Len(remote) + 1)]
    /\ pc' = [pc EXCEPT ![r] = "loop"]
    /\ Log(r, "created")
    /\ UNCHANGED <<client, env, arg, ret, view, result, panic, slept>>


\* get_task sent without awaiting the answer to the one before.
GetTaskNoAwait(r) ==
    /\ pc[r] \in {"loop", "getting"}
    /\ Queries(r) < MaxQueries
    /\ inflight' = inflight \cup
          {[run |-> r, op |-> "get_task", n |-> Queries(r) + 1,
            id |-> task_id[r], body |-> None]}
    /\ pc' = [pc EXCEPT ![r] = "getting"]
    /\ Log(r, "get_task")
    /\ UNCHANGED <<client, env, arg, ret, task_id, view, result, panic, remote, slept>>

\* get_task sent with the identifier of the task the remote made last.
GetTaskLatestId(r) ==
    /\ pc[r] = "loop"
    /\ inflight' = inflight \cup
          {[run |-> r, op |-> "get_task", n |-> Queries(r) + 1,
            id |-> Some(Len(remote)), body |-> None]}
    /\ pc' = [pc EXCEPT ![r] = "getting"]
    /\ Log(r, "get_task")
    /\ UNCHANGED <<client, env, arg, ret, task_id, view, result, panic, remote, slept>>

\* The top of the loop: get_task(&task_id, View::Full) is sent (line 93).
GetTask(r) ==
    /\ pc[r] = "loop"
    /\ inflight' = inflight \cup
          {[run |-> r, op |-> "get_task", n |-> Queries(r) + 1,
            id |-> task_id[r], body |-> None]}
    /\ pc' = [pc EXCEPT ![r] = "getting"]
    /\ Log(r, "get_task")
    /\ UNCHANGED <<client, env, arg, ret, task_id, view, result, panic, remote, slept>>


\* get_task fails and the error is unwrapped.
GetTaskErrUnwrap(r) ==
    /\ pc[r] = "getting"
    /\ Queries(r) < MaxQueries
    /\ \E q \in Requests(r, "get_task") : inflight' = inflight \ {q}
    /\ pc' = [pc EXCEPT ![r] = "panicked"]
    /\ panic' = [panic EXCEPT ![r] = "get_task: unwrap on Err"]
    /\ Log2(r, "err", "panic")
    /\ client' = Drop(client)
    /\ UNCHANGED <<env, arg, ret, task_id, view, result, remote, slept>>

\* get_task fails: `if let Ok(..)` does not match and the loop starts over
\* (lines 93, 133-134).
GetTaskErr(r) ==
    /\ pc[r] = "getting"
    /\ Queries(r) < MaxQueries
    /\ \E q \in Requests(r, "get_task") : inflight' = inflight \ {q}
    /\ pc' = [pc EXCEPT ![r] = "loop"]
    /\ Log(r, "err")
    /\ UNCHANGED <<client, env, arg, ret, task_id, view, result, panic, remote, slept>>

\* The view has no state and the future sleeps before the loop starts over.
NoStateSleeps(r, task) ==
    /\ pc' = [pc EXCEPT ![r] = "sleeping"]
    /\ view' = [view EXCEPT ![r] = Some(task)]
    /\ Log2(r, "no_state", "sleep")
    /\ UNCHANGED <<result, panic, slept, client>>

\* The view has no state: `if let Some(..)` does not match, the view is
\* dropped and the loop starts over (lines 98, 132-134).
NoState(r, task) ==
    /\ pc' = [pc EXCEPT ![r] = "loop"]
    /\ view' = [view EXCEPT ![r] = None]
    /\ Log(r, "no_state")
    /\ UNCHANGED <<result, panic, slept, client>>


\* The state is executing and the logs of the view are checked before the
\* sleep.
ExecutingChecksLogs(r, task) ==
    LET out == task_result(env.platform, task)
    IN  /\ pc' = [pc EXCEPT ![r] = IF out.value = None THEN "panicked" ELSE "sleeping"]
        /\ view' = [view EXCEPT ![r] = Some(task)]
        /\ panic' = [panic EXCEPT ![r] = out.panic]
        /\ Log2(r, "executing", IF out.value = None THEN "panic" ELSE "sleep")
        /\ client' = IF out.value = None THEN Drop(client) ELSE client
        /\ UNCHANGED <<result, slept>>

\* The state is executing and the run gives up waiting.
ExecutingGivesUp(r, task) ==
    /\ pc' = [pc EXCEPT ![r] = "panicked"]
    /\ view' = [view EXCEPT ![r] = Some(task)]
    /\ panic' = [panic EXCEPT ![r] = "gave up waiting"]
    /\ Log2(r, "executing", "panic")
    /\ client' = Drop(client)
    /\ UNCHANGED <<result, slept>>

\* The state is executing and the loop starts over without sleeping.
ExecutingNoSleep(r, task) ==
    /\ pc' = [pc EXCEPT ![r] = "loop"]
    /\ view' = [view EXCEPT ![r] = None]
    /\ Log(r, "executing")
    /\ UNCHANGED <<result, panic, slept, client>>

\* The state is executing: the future sleeps (lines 99, 131).
Executing(r, task) ==
    /\ pc' = [pc EXCEPT ![r] = "sleeping"]
    /\ view' = [view EXCEPT ![r] = Some(task)]
    /\ Log2(r, "executing", "sleep")
    /\ UNCHANGED <<result, panic, slept, client>>


\* The state is not executing, and a state other than COMPLETE is a failure of
\* the run.
StoppedFailsOnError(r, task) ==
    LET out == IF task.state[1] = "COMPLETE" THEN task_result(env.platform, task)
               ELSE Panicked("task did not complete")
    IN  /\ pc' = [pc EXCEPT ![r] = IF out.value = None THEN "panicked" ELSE "returned"]
        /\ view' = [view EXCEPT ![r] = Some(task)]
        /\ result' = [result EXCEPT ![r] = out.value]
        /\ panic' = [panic EXCEPT ![r] = out.panic]
        /\ Log2(r, "stopped", IF out.value = None THEN "panic" ELSE "return")
        /\ client' = Drop(client)
        /\ UNCHANGED slept

\* The state is not executing, the result is built and the loop goes on.
StoppedNoReturn(r, task) ==
    LET out == task_result(env.platform, task)
    IN  /\ pc' = [pc EXCEPT ![r] = IF out.value = None THEN "panicked" ELSE "loop"]
        /\ view' = [view EXCEPT ![r] = Some(task)]
        /\ result' = [result EXCEPT ![r] = out.value]
        /\ panic' = [panic EXCEPT ![r] = out.panic]
        /\ Log2(r, "stopped", IF out.value = None THEN "panic" ELSE "return")
        /\ client' = IF out.value = None THEN Drop(client) ELSE client
        /\ UNCHANGED slept

\* The state is not executing: the logs become the TaskResult the future
\* returns, or the future panics (lines 99-128).
Stopped(r, task) ==
    LET out == task_result(env.platform, task)
    IN  /\ pc' = [pc EXCEPT ![r] = IF out.value = None THEN "panicked" ELSE "returned"]
        /\ view' = [view EXCEPT ![r] = Some(task)]
        /\ result' = [result EXCEPT ![r] = out.value]
        /\ panic' = [panic EXCEPT ![r] = out.panic]
        /\ Log2(r, "stopped", IF out.value = None THEN "panic" ELSE "return")
        /\ client' = Drop(client)
        /\ UNCHANGED slept

\* The views the remote may answer the request q with.
Views(q) ==
    { [id |-> q.id[1], state |-> s, logs |-> l] :
        s \in { s \in EnvStates :
                  q.n >= MaxQueries => (s # None /\ ~ is_executing(s[1])) },
        l \in EnvLogs }

\* get_task succeeds (lines 93-132).
GetTaskOk(r) ==
    /\ pc[r] = "getting"
    /\ \E q \in Requests(r, "get_task") :
         /\ q.id # None /\ q.id[1] \in 1..Len(remote)
         /\ inflight' = inflight \ {q}
         /\ \E task \in Views(q) :
              IF task.state = None THEN NoState(r, task)
              ELSE IF is_executing(task.state[1]) THEN Executing(r, task)
              ELSE Stopped(r, task)
    /\ UNCHANGED <<env, arg, ret, task_id, remote>>

\* The delay has passed and the task is submitted again.
WakeResubmit(r) ==
    /\ pc[r] = "sleeping"
    /\ slept' = IF env.record THEN [slept EXCEPT ![r] = @ + PollDelayMs] ELSE slept
    /\ view' = [view EXCEPT ![r] = None]
    /\ pc' = [pc EXCEPT ![r] = "start"]
    /\ Log(r, "wake")
    /\ UNCHANGED <<client, env, arg, ret, task_id, result, panic, inflight, remote>>

\* The delay has passed: the view is dropped and the loop starts over
\* (lines 131-134).
Wake(r) ==
    /\ pc[r] = "sleeping"
    /\ slept' = IF env.record THEN [slept EXCEPT ![r] = @ + PollDelayMs] ELSE slept
    /\ view' = [view EXCEPT ![r] = None]
    /\ pc' = [pc EXCEPT ![r] = "loop"]
    /\ Log(r, "wake")
    /\ UNCHANGED <<client, env, arg, ret, task_id, result, panic, inflight, remote>>

Next ==
    \E r \in Runs :
        \/ Call(r)
        \/ CreateTaskErr(r)
        \/ CreateTaskOk(r)
        \/ GetTask(r)
        \/ GetTaskErr(r)
        \/ GetTaskOk(r)
        \/ Wake(r)

Spec == Init /\ [][Next]_vars

SpecConcurrent == InitConcurrent /\ [][Next]_vars

\* Two calls of `run` against a remote that may keep a task executing, or keep
\* failing, for ever; the history and the time slept, which would grow without
\* bound, are not kept.
LiveEnvs ==
    { [runs |-> Runs, platform |-> "unix",
       states |-> ExecutingStates \cup StoppedStates, logs |-> "few",
       record |-> FALSE, config |-> [url |-> "http://tes", token |-> None]] }

InitLive == InitWith(LiveEnvs)

\* The executor polls a future that can make progress, every request is
\* answered in the end (with a view or an error) and every timer fires.
Fairness ==
    \A r \in Runs :
        /\ WF_vars(Call(r))
        /\ WF_vars(CreateTaskOk(r) \/ CreateTaskErr(r))
        /\ WF_vars(GetTask(r))
        /\ WF_vars(GetTaskOk(r) \/ GetTaskErr(r))
        /\ WF_vars(Wake(r))

SpecLive == InitLive /\ [][Next]_vars /\ Fairness

----------------------------------------------------------------------------
(* to_tes_task applied on its own *)

\* No call of `run` is made.
PureEnvs ==
    { [runs |-> {}, platform |-> "unix", states |-> {}, logs |-> "few",
       record |-> TRUE, config |-> [url |-> "http://tes", token |-> None]] }

\* The engine tasks translated: with and without name and description, one to
\* MaxSteps executions, each with an image and up to MaxArgs arguments.
TranslatorTasks ==
    { [name |-> n, description |-> d, executions |-> e] :
        n \in {None, Some("align")},
        d \in {None, Some("")},
        e \in SeqsUpTo({Execution(i, a) : i \in {"alpine", "ubuntu"},
                                          a \in SeqsUpTo({"-c", "ls"}, MaxArgs)},
                       MaxSteps) \ {<<>>} }

InitTranslate ==
    /\ Idle(PureEnvs)
    /\ arg \in {Some(t) : t \in TranslatorTasks}
    /\ ret = None

\* to_tes_task(task) is called (line 87).
Translate ==
    /\ arg # None
    /\ ret = None
    /\ ret' = Some(to_tes_task(arg[1]))
    /\ UNCHANGED <<env, pc, task_id, view, result, panic, inflight, remote, hist,
                   slept, client, arg>>

SpecTranslate == InitTranslate /\ [][Translate]_vars

----------------------------------------------------------------------------
(* The closure of `map` applied on its own *)

\* The closure |log| .. (lines 105-123): the output of one executor log, or the
\* panic of `expect`.
map_log(platform, log) ==
    IF log.exit_code = None THEN Panicked("exit code to be present")
    ELSE Returned(Output(platform, log))

\* Exit codes up to u32::MAX, on both sides of i32::MAX.
ExitCodes ==
    { u32(0), u32(1), u32(137), u32(255), u32(256),
      [hi |-> 1, lo |-> 0], [hi |-> 32767, lo |-> 65535],
      [hi |-> 32768, lo |-> 0], [hi |-> 65535, lo |-> 65535] }

\* Texts of one-, two- and three-byte characters: "", "ok", U+00E9, U+20AC LF.
Texts == { <<>>, <<111, 107>>, <<233>>, <<8364, 10>> }

MappedLogs ==
    { ExecutorLog(c, out, err) :
        c \in {None} \cup {Some(x) : x \in ExitCodes},
        out \in {None} \cup {Some(t) : t \in Texts},
        err \in {None} \cup {Some(t) : t \in Texts} }

OutputEnvs == { [e EXCEPT !.platform = p] : e \in PureEnvs, p \in {"unix", "windows"} }

InitMapLog ==
    /\ Idle(OutputEnvs)
    /\ arg \in {Some(l) : l \in MappedLogs}
    /\ ret = None

\* The iterator pulls one item: the closure runs on one log (lines 105-123).
MapLog ==
    /\ arg # None
    /\ ret = None
    /\ ret' = Some(map_log(env.platform, arg[1]))
    /\ UNCHANGED <<env, pc, task_id, view, result, panic, inflight, remote, hist,
                   slept, client, arg>>

SpecMapLog == InitMapLog /\ [][MapLog]_vars

----------------------------------------------------------------------------
(* Vocabulary of the properties *)

Has(h, e) == \E i \in 1..Len(h) : h[i] = e

\* The run has consumed a view whose state is not executing.
SawStopped(r) == Has(hist[r], "stopped") /\ view[r] # None

\* The number of executor logs in the groups before group g.
RECURSIVE Offset(_, _)
Offset(groups, g) ==
    IF g <= 1 THEN 0 ELSE Offset(groups, g - 1) + Len(groups[g - 1].logs)

FlatCount(logs) == IF logs = None THEN 0 ELSE Offset(logs[1], Len(logs[1]) + 1)

\* Some executor log of the view carries no exit code.
LacksExitCode(logs) ==
    /\ logs # None
    /\ \E g \in 1..Len(logs[1]) :
         \E e \in 1..Len(logs[1][g].logs) : logs[1][g].logs[e].exit_code = None

ValidLogs(logs) == FlatCount(logs) >= 1 /\ ~ LacksExitCode(logs)

\* The outputs are those of the executor logs, group by group and, within a
\* group, executor by executor.
MirrorsLogs(executions, logs) ==
    /\ Len(executions) = FlatCount(logs)
    /\ \A g \in 1..Len(logs[1]) :
         \A e \in 1..Len(logs[1][g].logs) :
            executions[Offset(logs[1], g) + e] = Output(env.platform, logs[1][g].logs[e])

\* The events of a run that is answered "executing" k times and then "stopped".
PollTrace(k) ==
    <<"create_task", "created">>
    \o Concat([i \in 1..k |-> <<"get_task", "executing", "sleep", "wake">>])
    \o <<"get_task", "stopped">>

IsResponse(e) == e \in {"err", "no_state", "executing", "stopped"}

----------------------------------------------------------------------------
(* Properties *)

\* C1 Polling termination: a run answered "executing" k times and then a
\* non-executing state with valid logs has made exactly k+1 queries, each
\* "executing" answer followed by the 200 ms sleep before the next query, and
\* has returned the result built from the last view.
C1_PollingTermination ==
    \A r \in Runs :
        LET k == Count(hist[r], "executing")
        IN  ( /\ SawStopped(r)
              /\ ~ Has(hist[r], "err")
              /\ ~ Has(hist[r], "no_state")
              /\ ValidLogs(view[r][1].logs) )
            => /\ hist[r] = PollTrace(k) \o <<"return">>
               /\ Queries(r) = k + 1
               /\ slept[r] = k * PollDelayMs
               /\ pc[r] = "returned"
               /\ result[r] # None
               /\ MirrorsLogs(result[r][1].executions, view[r][1].logs)

C1_Witness ==
    \E r \in Runs :
        /\ pc[r] = "returned"
        /\ Count(hist[r], "executing") = 2
        /\ ~ Has(hist[r], "err")
        /\ ~ Has(hist[r], "no_state")

\* C2 Delay after a failed query: between a failed status query and the next
\* status query of the same run the 200 ms sleep occurs.
C2_DelayAfterFailedQuery ==
    \A r \in Runs :
        \A i, j \in 1..Len(hist[r]) :
            (i < j /\ hist[r][i] = "err" /\ hist[r][j] = "get_task")
            => \E m \in (i + 1)..(j - 1) : hist[r][m] = "sleep"

\* C3 A failed status query is never fatal: after it the run is at the top of
\* the loop with no result and no panic, the next event is a further query,
\* and a run whose submission succeeded ends only on a successful query that
\* reports a non-executing state.
C3_FailedQueryNotFatal ==
    \A r \in Runs :
        /\ \A i \in 1..Len(hist[r]) :
             hist[r][i] = "err" =>
                IF i = Len(hist[r])
                    THEN /\ pc[r] = "loop"
                         /\ result[r] = None
                         /\ panic[r] = ""
                         /\ ENABLED GetTask(r)
                    ELSE hist[r][i + 1] = "get_task"
        /\ (Has(hist[r], "created") /\ pc[r] \in {"returned", "panicked"})
           => /\ Len(hist[r]) >= 2
              /\ hist[r][Len(hist[r]) - 1] = "stopped"
              /\ view[r] # None
              /\ view[r][1].state # None
              /\ view[r][1].state[1] \in StoppedStates

C3_Witness ==
    \E r \in Runs : Count(hist[r], "err") = 2 /\ pc[r] = "returned"

\* C4 Submission failure is fatal and not retried: a run whose create_task
\* failed has panicked after exactly one submission and no status query, and
\* has no result.
C4_SubmitFailureFatal ==
    \A r \in Runs :
        Has(hist[r], "create_err")
        => /\ pc[r] = "panicked"
           /\ Submits(r) = 1
           /\ Queries(r) = 0
           /\ result[r] = None
           /\ task_id[r] = None
           /\ {q \in inflight : q.run = r} = {}

C4_Witness == \E r \in Runs : Has(hist[r], "create_err")

\* C5 Ordering within a run: no status query is sent before the submission
\* was answered, at most one status query of a run is in flight, and between
\* two status queries of a run lies the answer to the first.
C5_SequentialQueries ==
    \A r \in Runs :
        /\ Cardinality(Requests(r, "get_task")) <= 1
        /\ Requests(r, "get_task") # {} => Requests(r, "create_task") = {}
        /\ \A j \in 1..Len(hist[r]) :
             hist[r][j] = "get_task" =>
                /\ \E i \in 1..(j - 1) : hist[r][i] = "created"
                /\ \A i \in 1..(j - 1) :
                     hist[r][i] = "get_task" =>
                        \E m \in (i + 1)..(j - 1) : IsResponse(hist[r][m])

C5_Witness ==
    \E r \in Runs : Queries(r) >= 2 /\ Requests(r, "get_task") # {}

\* C6 Non-empty, order-preserving aggregation: a non-executing view whose
\* logs flatten to n >= 1 executor logs that all carry an exit code yields a
\* result of exactly n outputs, output i being that of flattened log i
\* (group order outer, executor order inner).
C6_OrderPreservingAggregation ==
    \A r \in Runs :
        (SawStopped(r) /\ ValidLogs(view[r][1].logs))
        => /\ pc[r] = "returned"
           /\ result[r] # None
           /\ Len(result[r][1].executions) >= 1
           /\ MirrorsLogs(result[r][1].executions, view[r][1].logs)

C6_Witness ==
    \E r \in Runs :
        /\ pc[r] = "returned"
        /\ Len(view[r][1].logs[1]) = 2
        /\ Len(view[r][1].logs[1][1].logs) = 2
        /\ Len(result[r][1].executions) = 3
        /\ result[r][1].executions[1] # result[r][1].executions[3]

\* C7 Fatal on empty: a non-executing view without executor logs (logs absent,
\* no groups, or only empty groups) makes the run panic, and no result without
\* outputs is ever returned.
C7_FatalOnEmpty ==
    \A r \in Runs :
        /\ (SawStopped(r) /\ FlatCount(view[r][1].logs) = 0)
           => (pc[r] = "panicked" /\ result[r] = None /\ panic[r] # "")
        /\ result[r] # None => Len(result[r][1].executions) >= 1

C7_Witness ==
    \E r \in Runs :
        /\ SawStopped(r)
        /\ view[r][1].logs # None
        /\ Len(view[r][1].logs[1]) = 2
        /\ FlatCount(view[r][1].logs) = 0

\* C8 All-or-nothing construction: a non-executing view with an executor log
\* that lacks its exit code, at whatever position, makes the run panic without
\* a result; the outputs before that log are not returned.
C8_AllOrNothing ==
    \A r \in Runs :
        (SawStopped(r) /\ LacksExitCode(view[r][1].logs))
        => (pc[r] = "panicked" /\ result[r] = None /\ panic[r] # "")

C8_Witness ==
    \E r \in Runs :
        /\ SawStopped(r)
        /\ view[r][1].logs # None
        /\ LET flat == flat_map(view[r][1].logs[1])
           IN  /\ Len(flat) = 3
               /\ flat[1].exit_code # None
               /\ flat[2].exit_code = None
               /\ flat[3].exit_code # None

\* C9 One terminal view per run: the view whose state is not executing is the
\* last answer the run receives; right after it the run returns or panics,
\* once, and sends no further query and starts no further sleep.
C9_OneTerminalView ==
    \A r \in Runs :
        /\ Count(hist[r], "stopped") <= 1
        /\ Count(hist[r], "return") + Count(hist[r], "panic") <= 1
        /\ \A i \in 1..Len(hist[r]) :
             hist[r][i] = "stopped" =>
                /\ Len(hist[r]) = i + 1
                /\ hist[r][i + 1] \in {"return", "panic"}
                /\ pc[r] = (IF hist[r][i + 1] = "return" THEN "returned" ELSE "panicked")
                /\ (result[r] # None) = (pc[r] = "returned")
                /\ {q \in inflight : q.run = r} = {}
                /\ ~ ENABLED (GetTask(r) \/ GetTaskOk(r) \/ Wake(r))

C9_Witness ==
    \E r \in Runs : pc[r] = "returned" /\ Queries(r) = 2 /\ slept[r] = PollDelayMs

\* C10 Concurrent-run independence: with two runs sharing the client, every
\* status query of a run carries the identifier its own submission returned,
\* the view it consumes is the one of its own task, and its result mirrors
\* that view's logs in their order.
C10_ConcurrentIndependence ==
    \A r \in Runs :
        /\ \A q \in Requests(r, "get_task") :
             /\ q.id = task_id[r]
             /\ q.id # None
             /\ q.id[1] \in 1..Len(remote)
             /\ remote[q.id[1]] = r
        /\ view[r] # None =>
             /\ Some(view[r][1].id) = task_id[r]
             /\ remote[view[r][1].id] = r
        /\ pc[r] = "returned" =>
             MirrorsLogs(result[r][1].executions, view[r][1].logs)
        /\ \A o \in Runs \ {r} :
             (task_id[r] # None /\ task_id[o] # None) => task_id[r] # task_id[o]

C10_Witness ==
    /\ pc[1] = "returned"
    /\ pc[2] = "returned"
    /\ result[1] # result[2]
    /\ view[1][1].id # view[2][1].id

\* C11 Translation order preservation: the payload of an engine task with N
\* executions has exactly N executors, executor i with the image of execution
\* i and its arguments in their order; name and description are copied, an
\* absent one staying absent; and the translation of every task succeeds.
C11_TranslationPreservesOrder ==
    /\ (arg # None /\ ret = None) => ENABLED Translate
    /\ ret # None =>
         LET task == arg[1]
             payload == ret[1]
         IN  /\ payload.name = task.name
             /\ payload.description = task.description
             /\ Len(payload.executors) = Len(task.executions)
             /\ \A i \in 1..Len(task.executions) :
                  /\ payload.executors[i].image = task.executions[i].image
                  /\ Len(payload.executors[i].command) = Len(task.executions[i].args)
                  /\ \A j \in 1..Len(task.executions[i].args) :
                       payload.executors[i].command[j] = task.executions[i].args[j]

C11_Witness ==
    /\ ret # None
    /\ arg[1].name = None
    /\ arg[1].description # None
    /\ Len(ret[1].executors) = 2
    /\ ret[1].executors[1].image # ret[1].executors[2].image
    /\ Len(ret[1].executors[1].command) = 2
    /\ ret[1].executors[1].command[1] # ret[1].executors[1].command[2]

\* ExitStatus::success of the standard library: the raw status is zero.
Success(status) ==
    IF env.platform = "unix" THEN status.raw = 0 ELSE status.raw = u32(0)

\* The text that the bytes are the UTF-8 encoding of (characters below U+10000).
RECURSIVE DecodeUtf8(_)
DecodeUtf8(b) ==
    IF b = <<>> THEN <<>>
    ELSE IF b[1] < 128
        THEN <<b[1]>> \o DecodeUtf8(SubSeq(b, 2, Len(b)))
    ELSE IF b[1] < 224
        THEN <<(b[1] - 192) * 64 + (b[2] - 128)>> \o DecodeUtf8(SubSeq(b, 3, Len(b)))
    ELSE <<(b[1] - 224) * 4096 + (b[2] - 128) * 64 + (b[3] - 128)>>
         \o DecodeUtf8(SubSeq(b, 4, Len(b)))

\* The bytes are those of the optional text: none when it is absent.
BytesOf(bytes, text) ==
    /\ \A i \in 1..Len(bytes) : bytes[i] \in 0..255
    /\ IF text = None THEN bytes = <<>> ELSE DecodeUtf8(bytes) = text[1]

\* raw is the i32 with the bits of the u32 c.
IsI32Of(raw, c) ==
    IF c.hi < 32768
        THEN raw = c.hi * 65536 + c.lo
        ELSE /\ raw < 0
             /\ (raw - c.lo) % 65536 = 0
             /\ (raw - c.lo) \div 65536 = c.hi - 65536

\* The closure returned an output for the log in arg.
Mapped == arg # None /\ ret # None /\ ret[1].value # None /\ "exit_code" \in DOMAIN arg[1]

\* C12 Exit-status mapping, success and defaults: the output of an executor log
\* has the bytes of the log's stdout and stderr texts, no bytes for an omitted
\* one; with exit code 0 and neither text, it is a success with empty stdout
\* and stderr.
C12_SuccessAndDefaults ==
    Mapped =>
        LET log == arg[1]
            out == ret[1].value[1]
        IN  /\ BytesOf(out.stdout, log.stdout)
            /\ BytesOf(out.stderr, log.stderr)
            /\ (log = ExecutorLog(Some(u32(0)), None, None))
               => (Success(out.status) /\ out.stdout = <<>> /\ out.stderr = <<>>)

C12_Witness ==
    /\ Mapped
    /\ arg[1] = ExecutorLog(Some(u32(0)), None, None)
    /\ Success(ret[1].value[1].status)
    /\ ret[1].value[1].stdout = <<>>

\* C13 Exit-status mapping, non-zero codes: the status of the output for exit
\* code c is, on unix, the wait status whose raw value is c as an i32 and, on
\* windows, the exit code c; it is a success exactly when c is 0.
C13_NativeExitStatus ==
    Mapped =>
        LET c == arg[1].exit_code[1]
            status == ret[1].value[1].status
        IN  /\ env.platform = "unix" => IsI32Of(status.raw, c)
            /\ env.platform = "windows" => status.raw = c
            /\ Success(status) <=> (c = u32(0))

C13_Witness ==
    /\ Mapped
    /\ env.platform = "unix"
    /\ arg[1].exit_code = Some(u32(137))
    /\ ret[1].value[1].status.raw = 137

\* The last view run r received reports a state that is not executing.
StoppedView(r) ==
    /\ view[r] # None
    /\ view[r][1].state # None
    /\ view[r][1].state[1] \in StoppedStates

\* C14 Terminal detection does not tell success from failure: a view with any
\* non-executing state and valid logs ends the run with the result of its
\* logs, never with a panic, and two runs that stop on the same logs in
\* different states end alike.
C14_StateKindIrrelevant ==
    \A r \in Runs :
        /\ (StoppedView(r) /\ ValidLogs(view[r][1].logs))
           => /\ pc[r] = "returned"
              /\ panic[r] = ""
              /\ result[r] # None
              /\ MirrorsLogs(result[r][1].executions, view[r][1].logs)
        /\ \A o \in Runs :
             (StoppedView(r) /\ StoppedView(o) /\ view[r][1].logs = view[o][1].logs)
             => (pc[r] = pc[o] /\ result[r] = result[o] /\ panic[r] = panic[o])

C14_Witness ==
    /\ StoppedView(1)
    /\ StoppedView(2)
    /\ view[1][1].state = Some("COMPLETE")
    /\ view[2][1].state = Some("SYSTEM_ERROR")
    /\ view[1][1].logs = view[2][1].logs
    /\ pc[1] = "returned"
    /\ pc[2] = "returned"

\* Run r has ended.
Ended(r) == pc[r] \in {"returned", "panicked"}

\* Run r has ended after its submission succeeded.
LeftPolling(r) == task_id[r] # None /\ Ended(r)

\* A step in which run r receives an answer to get_task receives a view whose
\* state is not executing.
AnswersStopped(r) == (pc[r] = "getting" /\ pc'[r] # "getting") => StoppedView(r)'

\* C15 Await completion without bound: after a successful submission a run
\* leaves the loop exactly on a view whose state is not executing; if from
\* some point on every answer is such a view the run ends; and as long as no
\* answer is such a view the run neither returns nor fails but sends get_task
\* again and again.
C15_AwaitCompletion ==
    /\ [](\A r \in Runs : LeftPolling(r) => StoppedView(r))
    /\ [][\A r \in Runs : (pc[r] = "getting" /\ StoppedView(r)') => LeftPolling(r)']_vars
    /\ \A r \in Runs :
         /\ (<>[][AnswersStopped(r)]_vars) => <>Ended(r)
         /\ ([]~StoppedView(r)) =>
               /\ [](task_id[r] # None => ~Ended(r))
               /\ (<>(task_id[r] # None)) => []<><<GetTask(r)>>_vars

C15_Witness ==
    /\ ~ env.record
    /\ pc[1] = "returned"
    /\ StoppedView(1)
    /\ pc[2] = "sleeping"

\* Run r is between its call and its end.
Running(r) == pc[r] \in {"creating", "loop", "getting", "sleeping"}

RemoteOps == {"create_task", "get_task"}

\* C16 No local side effects: at every step the shared client has the url and
\* the headers it was built with and is held by the backend and by each running
\* future only; the requests of a run are one create_task and get_task
\* queries, never another operation; and once every run has ended the client
\* is as it was built, with no request left and nothing of a run in it.
C16_NoLocalSideEffects ==
    /\ client.url = env.config.url
    /\ client.headers = initialize(env.config).headers
    /\ client.strong = 1 + Cardinality({r \in Runs : Running(r)})
    /\ \A q \in inflight : q.op \in RemoteOps
    /\ \A r \in Runs :
         /\ Submits(r) <= 1
         /\ Cardinality(Requests(r, "create_task")) <= 1
         /\ Ended(r) => {q \in inflight : q.run = r} = {}
    /\ (\A r \in Runs : Ended(r)) => (client = initialize(env.config) /\ inflight = {})

C16_Witness ==
    /\ pc[1] = "returned"
    /\ pc[2] = "panicked"
    /\ task_id[1] # None
    /\ Queries(1) = 2
    /\ client = initialize(env.config)
    /\ client.headers # <<>>

\* C17 One submission and one identifier per run: a run that was called has
\* sent create_task exactly once and received at most one identifier; every
\* get_task it sends carries that identifier, which the remote gave to this
\* run and to no other; once set the identifier never changes, and only the
\* answer to the run's own create_task sets it.
C17_OneSubmissionOneIdentifier ==
    /\ [](\A r \in Runs :
            /\ pc[r] # "start" => Submits(r) = 1
            /\ Count(hist[r], "created") <= 1
            /\ (task_id[r] # None) = Has(hist[r], "created")
            /\ Queries(r) >= 1 => task_id[r] # None
            /\ \A q \in Requests(r, "get_task") : q.id = task_id[r]
            /\ task_id[r] # None =>
                 /\ task_id[r][1] \in 1..Len(remote)
                 /\ remote[task_id[r][1]] = r
                 /\ Cardinality({i \in 1..Len(remote) : remote[i] = r}) = 1
                 /\ \A o \in Runs \ {r} : task_id[o] # task_id[r])
    /\ [][\A r \in Runs :
            /\ task_id[r] # None => task_id'[r] = task_id[r]
            /\ task_id'[r] # task_id[r] =>
                 (pc[r] = "creating" /\ Requests(r, "create_task") # {})
            /\ Queries(r)' > Queries(r) =>
                 \E q \in Requests(r, "get_task")' : q.id = task_id[r]]_vars

C17_Witness ==
    /\ Queries(1) = 3
    /\ Queries(2) = 2
    /\ Requests(2, "get_task") # {}
    /\ task_id[1] = Some(2)
    /\ task_id[2] = Some(1)
    /\ pc[1] = "returned"

\* C18 A view without a state is unresolved: the run neither returns nor
\* fails on it, whatever its logs; it is back at the top of the loop, the next
\* event is the next get_task, and no sleep lies between; a sleep follows an
\* answer whose state is executing and nothing else.
C18_NoStateRetriesAtOnce ==
    \A r \in Runs :
        /\ \A i \in 1..Len(hist[r]) :
             /\ hist[r][i] = "no_state" =>
                  IF i = Len(hist[r])
                      THEN /\ pc[r] = "loop"
                           /\ view[r] = None
                           /\ result[r] = None
                           /\ panic[r] = ""
                           /\ ENABLED GetTask(r)
                           /\ ~ ENABLED Wake(r)
                      ELSE hist[r][i + 1] = "get_task"
             /\ hist[r][i] = "sleep" => (i > 1 /\ hist[r][i - 1] = "executing")
        /\ Count(hist[r], "sleep") = Count(hist[r], "executing")
        /\ slept[r] = PollDelayMs * Count(hist[r], "wake")
        /\ Count(hist[r], "wake") <= Count(hist[r], "executing")

C18_Witness ==
    \E r \in Runs :
        /\ Count(hist[r], "no_state") = 2
        /\ slept[r] = 0
        /\ pc[r] = "returned"

\* The view run r holds reports an executing state.
ExecutingView(r) ==
    /\ view[r] # None
    /\ view[r][1].state # None
    /\ is_executing(view[r][1].state[1])

\* C19 The logs are checked on the terminal view only: a view whose state is
\* executing puts the run to sleep without a panic whatever its logs (absent,
\* empty, or an executor log without exit code); every executing answer is
\* followed by the sleep; and a run that panics after its submission does so
\* right after its one non-executing view, whose logs are not valid.
C19_ChecksAtTerminalViewOnly ==
    \A r \in Runs :
        /\ ExecutingView(r) =>
             /\ pc[r] = "sleeping"
             /\ panic[r] = ""
             /\ result[r] = None
        /\ \A i \in 1..Len(hist[r]) :
             hist[r][i] = "executing" => (i < Len(hist[r]) /\ hist[r][i + 1] = "sleep")
        /\ (pc[r] = "panicked" /\ task_id[r] # None) =>
             /\ StoppedView(r)
             /\ ~ ValidLogs(view[r][1].logs)
             /\ Count(hist[r], "stopped") = 1
             /\ Len(hist[r]) >= 2
             /\ hist[r][Len(hist[r]) - 1] = "stopped"
             /\ hist[r][Len(hist[r])] = "panic"
        /\ (pc[r] = "panicked") = (panic[r] # "")

C19_Witness ==
    \E r \in Runs :
        /\ ExecutingView(r)
        /\ LacksExitCode(view[r][1].logs)
        /\ Queries(r) = 2
        /\ Count(hist[r], "executing") = 2

====
